---- MODULE Spec2Model ----
(***************************************************************************)
(* Model of the aarch64 parts of the hypervisor crate:                     *)
(*   - the MSHV trapped-instruction emulator                               *)
(*     (hypervisor/src/mshv/aarch64/emulator.rs),                          *)
(*   - the KVM capability check and the kvm_regs <-> StandardRegisters     *)
(*     codec (hypervisor/src/kvm/aarch64/mod.rs).                          *)
(*                                                                         *)
(* 64-bit values are kept at full width.  As the model checker's integers  *)
(* are narrower than 64 bits, a u64 is a tuple of four 16-bit limbs, least *)
(* significant limb first; a u32 is a tuple of two limbs.                  *)
(***************************************************************************)
EXTENDS Integers, Sequences, FiniteSets, TLC

VARIABLES
    vcpu,       \* the MshvVcpu: [gprs, pc] as held by the hypervisor, vm_ops
    vcpu0,      \* the vCPU's registers when the fault was taken (history)
    context,    \* MshvEmulatorContext: map, syndrome, interruption_pending, pc
    entry,      \* the public method the caller invoked: "emulate" or "decode"
    step,       \* position inside Emulator::emulate / decode_with_syndrome
    regs,       \* decode_with_syndrome's local `regs` (pc) and `gprs`
    trace,      \* calls made on the vCPU and on vm_ops, in order
    ret_decode, \* what decode_with_syndrome returned: "none", "true", "false"
    ret_emulate,\* what emulate returned: "none", "false"
    panic,      \* the panic that ended the call, "none" if there is none
    kvm,        \* the capabilities the host's Kvm handle advertises
    cap_ret,    \* what check_required_kvm_extensions returned, "none" before
    cap_trace,  \* the capabilities it asked kvm.check_extension about, in order
    codec_orig, \* the register value a conversion chain started from
    codec_val,  \* the register value after the conversions made so far
    codec_steps,\* how many conversions were made
    gic_vm,     \* the backend of the VM handle given to MshvGicV3Its::new
    gic_config, \* the VgicConfig given to MshvGicV3Its::new
    gic_step,   \* position inside MshvGicV3Its::new
    gic_device, \* the MshvGicV3Its built, <<"none">> before
    gic_ret,    \* what MshvGicV3Its::new returned, <<"none">> before
    gic_panic   \* the panic that ended MshvGicV3Its::new, "none" if none

emulator_vars == <<vcpu, vcpu0, context, entry, step, regs, trace, ret_decode, ret_emulate, panic>>
cap_vars == <<kvm, cap_ret, cap_trace>>
codec_vars == <<codec_orig, codec_val, codec_steps>>
gic_vars == <<gic_vm, gic_config, gic_step, gic_device, gic_ret, gic_panic>>
vars == <<emulator_vars, cap_vars, codec_vars, gic_vars>>

----------------------------------------------------------------------------
(* 64-bit arithmetic on limbs *)

LimbBase == 2 ^ 16

Zero64 == <<0, 0, 0, 0>>

\* bit i (0 = least significant) of the u64 x
BitOf(x, i) == (x[(i \div 16) + 1] \div (2 ^ (i % 16))) % 2

\* the limb made of bits[base .. base+15]
LimbOfBits(bits, base) ==
    LET RECURSIVE Acc(_)
        Acc(j) == IF j > 15 THEN 0 ELSE bits[base + j] * (2 ^ j) + Acc(j + 1)
    IN Acc(0)

OfBits(bits) ==
    <<LimbOfBits(bits, 0), LimbOfBits(bits, 16), LimbOfBits(bits, 32), LimbOfBits(bits, 48)>>

\* (x as i64) << s, as the bit pattern: bits shifted out at the top are lost
shl64(x, s) == OfBits([i \in 0..63 |-> IF i >= s THEN BitOf(x, i - s) ELSE 0])

\* (x as i64) >> s: the arithmetic shift, the sign bit fills from the top
sar64(x, s) == OfBits([i \in 0..63 |-> IF i + s <= 63 THEN BitOf(x, i + s) ELSE BitOf(x, 63)])

\* x & 0xffffffff
and_ffffffff(x) == <<x[1], x[2], 0, 0>>

\* x + n for a small n: the wrapped sum and whether it overflowed 64 bits
add64(x, n) ==
    LET s1 == x[1] + n
        s2 == x[2] + (s1 \div LimbBase)
        s3 == x[3] + (s2 \div LimbBase)
        s4 == x[4] + (s3 \div LimbBase)
    IN  [val |-> <<s1 % LimbBase, s2 % LimbBase, s3 % LimbBase, s4 % LimbBase>>,
         overflow |-> s4 \div LimbBase > 0]

\* u64::to_ne_bytes on the (little-endian) aarch64 target: 8 bytes, least
\* significant first
to_ne_bytes(x) ==
    <<x[1] % 256, x[1] \div 256, x[2] % 256, x[2] \div 256,
      x[3] % 256, x[3] \div 256, x[4] % 256, x[4] \div 256>>

\* u64::from_ne_bytes
from_ne_bytes(b) ==
    <<b[1] + 256 * b[2], b[3] + 256 * b[4], b[5] + 256 * b[6], b[7] + 256 * b[8]>>

----------------------------------------------------------------------------
(* The fault syndrome (ESR_EL2) and its data-abort ISS encoding *)

DATA_ABORT_LOWER == 36
DATA_ABORT == 37

\* EsrEl2 fields: EC = bits 31:26, IL = bit 25, ISS = bits 24:0
ec(esr) == esr[2] \div 1024
il(esr) == (esr[2] \div 512) % 2 = 1
iss(esr) == esr[1] + LimbBase * (esr[2] % 512)

\* IssDataAbort fields: ISV = bit 24, SAS = bits 23:22, SSE = bit 21,
\* SRT = bits 20:16, SF = bit 15, WnR = bit 6
isv(i) == (i \div (2 ^ 24)) % 2 = 1
sas(i) == (i \div (2 ^ 22)) % 4
sse(i) == (i \div (2 ^ 21)) % 2 = 1
srt(i) == (i \div (2 ^ 16)) % 32
sf(i) == (i \div (2 ^ 15)) % 2 = 1
wnr(i) == (i \div (2 ^ 6)) % 2 = 1

\* the syndrome the hardware reports for the given fields (all other bits 0)
Syndrome(e, l, v, a, x, r, f, w) ==
    <<f * 32768 + w * 64,
      r + x * 32 + a * 64 + v * 256 + l * 512 + e * 1024,
      0, 0>>

----------------------------------------------------------------------------
(* Inputs *)

\* number of general-purpose registers StandardRegisters carries (x0..x30)
NumGprs == 31

\* exception classes tried: the two data aborts and an instruction abort
ExceptionClasses == {DATA_ABORT_LOWER, DATA_ABORT, 33}

\* register indices tried in the SRT field
SrtValues == {0, 5, 30, 31}

Bit == {0, 1}

Syndromes ==
    {Syndrome(e, l, v, a, x, r, f, w) :
        e \in ExceptionClasses, l \in Bit, v \in Bit, a \in 0..3,
        x \in Bit, r \in SrtValues, f \in Bit, w \in Bit}

\* the vCPU's general-purpose registers when the fault is taken: x5 holds
\* 0xAABBCCDD11223344, every other register a value of its own
InitialGprs ==
    [i \in 0..(NumGprs - 1) |->
        IF i = 5 THEN <<13124, 4386, 52445, 43707>>
                 ELSE <<i + 1, 256 + i, 512 + i, 32768 + i>>]

\* the vCPU's PC when the fault is taken: 0x1000, 0xfffe (a carry into the
\* next limb) and 2^64 - 2 (the addition overflows)
InitialPcs == {<<4096, 0, 0, 0>>, <<65534, 0, 0, 0>>, <<65534, 65535, 65535, 65535>>}

\* the faulting PC recorded in the context
ContextPc == <<4096, 0, 0, 0>>

\* the GVA -> GPA mapping of the faulting access
ContextMap == <<<<8192, 0, 0, 0>>, <<0, 2304, 0, 0>>>>

\* what the device model may put in the buffer of an mmio_read (the first
\* `len` bytes are used)
ReadPatterns ==
    {<<255, 255, 255, 255, 255, 255, 255, 255>>,
     <<127, 127, 127, 127, 127, 127, 127, 127>>,
     <<128, 0, 0, 0, 0, 0, 0, 0>>,
     <<1, 128, 2, 128, 3, 4, 5, 128>>}

NoRegs == [gprs |-> <<>>, pc |-> <<>>]

----------------------------------------------------------------------------
(* Emulator *)

Call(op, addr, data, ok) == [op |-> op, addr |-> addr, data |-> data, ok |-> ok]

Done(msg) ==
    /\ step' = "done"
    /\ panic' = msg

\* the emulator, the capability check and the codec are checked one at a
\* time: each specification leaves the other two parts idle
EmulatorIdle ==
    /\ vcpu = [gprs |-> InitialGprs, pc |-> ContextPc, vm_ops |-> FALSE]
    /\ vcpu0 = vcpu
    /\ context = [map |-> ContextMap, syndrome |-> Zero64,
                  interruption_pending |-> FALSE, pc |-> ContextPc]
    /\ entry = "none"
    /\ step = "idle"
    /\ regs = NoRegs
    /\ trace = <<>>
    /\ ret_decode = "none"
    /\ ret_emulate = "none"
    /\ panic = "none"

CapIdle ==
    /\ kvm = {}
    /\ cap_ret = <<"idle">>
    /\ cap_trace = <<>>

CodecIdle ==
    /\ codec_orig = <<"idle">>
    /\ codec_val = <<"idle">>
    /\ codec_steps = 0

GicIdle ==
    /\ gic_vm = "none"
    /\ gic_config = <<"idle">>
    /\ gic_step = "idle"
    /\ gic_device = <<"none">>
    /\ gic_ret = <<"none">>
    /\ gic_panic = "none"

Init ==
    /\ CapIdle
    /\ CodecIdle
    /\ GicIdle
    /\ vcpu \in [gprs : {InitialGprs}, pc : InitialPcs, vm_ops : BOOLEAN]
    /\ vcpu0 = vcpu
    /\ context \in [map : {ContextMap}, syndrome : Syndromes,
                    interruption_pending : BOOLEAN, pc : {ContextPc}]
    /\ entry \in {"emulate", "decode"}
    /\ step = entry
    /\ regs = NoRegs
    /\ trace = <<>>
    /\ ret_decode = "none"
    /\ ret_emulate = "none"
    /\ panic = "none"

\* emulate without the check of the pending interruption
emulate_unchecked ==
    /\ UNCHANGED <<cap_vars, codec_vars, gic_vars>>
    /\ step = "emulate"
    /\ step' = "decode"
    /\ UNCHANGED <<vcpu, vcpu0, context, entry, regs, trace, ret_decode, ret_emulate, panic>>

\* emulate, lines 93-96: a pending interruption is not handled
emulate ==
    /\ UNCHANGED <<cap_vars, codec_vars, gic_vars>>
    /\ step = "emulate"
    /\ IF context.interruption_pending
         THEN Done("Let's handle this scenario differently")
         ELSE step' = "decode" /\ UNCHANGED panic
    /\ UNCHANGED <<vcpu, vcpu0, context, entry, regs, trace, ret_decode, ret_emulate>>

\* the classification without the test of the ISV bit
DecodeApplicable_any_isv(syndrome) ==
    ec(syndrome) \in {DATA_ABORT, DATA_ABORT_LOWER}

\* decode_with_syndrome, lines 32-43: is the fault a data abort with a valid
\* instruction syndrome
DecodeApplicable(syndrome) ==
    /\ ec(syndrome) \in {DATA_ABORT, DATA_ABORT_LOWER}
    /\ isv(iss(syndrome))

\* decode_with_syndrome returns false (lines 37, 42); when it was called by
\* emulate, emulate then panics (lines 98-100)
decode_not_applicable ==
    /\ UNCHANGED <<cap_vars, codec_vars, gic_vars>>
    /\ step = "decode"
    /\ ~DecodeApplicable(context.syndrome)
    /\ ret_decode' = "false"
    /\ IF entry = "emulate"
         THEN Done("Failed to decode using syndrome register")
         ELSE Done("none")
    /\ UNCHANGED <<vcpu, vcpu0, context, entry, regs, trace, ret_emulate>>

\* the registers read and the PC advanced in the vCPU at once, ahead of the
\* access
decode_get_regs_advancing_pc ==
    /\ UNCHANGED <<cap_vars, codec_vars, gic_vars>>
    /\ step = "decode"
    /\ DecodeApplicable(context.syndrome)
    /\ \E ok \in BOOLEAN :
        /\ trace' = Append(trace, Call("get_regs", <<>>, <<>>, ok))
        /\ IF ok
             THEN /\ regs' = [gprs |-> vcpu.gprs, pc |-> vcpu.pc]
                  /\ vcpu' = [vcpu EXCEPT !.pc =
                         add64(vcpu.pc, IF il(context.syndrome) THEN 4 ELSE 2).val]
                  /\ step' = "access"
                  /\ UNCHANGED panic
             ELSE /\ Done("unwrap: get_regs")
                  /\ UNCHANGED <<regs, vcpu>>
    /\ UNCHANGED <<vcpu0, context, entry, ret_decode, ret_emulate>>

\* decode_with_syndrome, lines 48-49: vcpu.get_regs().unwrap(), regs.get_regs()
decode_get_regs ==
    /\ UNCHANGED <<cap_vars, codec_vars, gic_vars>>
    /\ step = "decode"
    /\ DecodeApplicable(context.syndrome)
    /\ \E ok \in BOOLEAN :
        /\ trace' = Append(trace, Call("get_regs", <<>>, <<>>, ok))
        /\ IF ok
             THEN /\ regs' = [gprs |-> vcpu.gprs, pc |-> vcpu.pc]
                  /\ step' = "access"
                  /\ UNCHANGED panic
             ELSE /\ Done("unwrap: get_regs")
                  /\ UNCHANGED regs
    /\ UNCHANGED <<vcpu, vcpu0, context, entry, ret_decode, ret_emulate>>

\* the register's bytes most significant first (to_be_bytes for to_ne_bytes)
write_data_be(gprs, reg_index) ==
    LET b == to_ne_bytes(IF reg_index \in 0..30 THEN gprs[reg_index] ELSE Zero64)
    IN  <<b[8], b[7], b[6], b[5], b[4], b[3], b[2], b[1]>>

\* decode_with_syndrome, lines 52-57: the bytes of the register to store;
\* index 31 is the zero register
write_data(gprs, reg_index) ==
    to_ne_bytes(IF reg_index \in 0..30 THEN gprs[reg_index] ELSE Zero64)

\* decode_with_syndrome, lines 51-63: the write path.  data[0..len] goes to
\* vm_ops.mmio_write at map.1, if the vCPU has vm_ops; the result is unwrapped
decode_mmio_write ==
    /\ UNCHANGED <<cap_vars, codec_vars, gic_vars>>
    /\ step = "access"
    /\ wnr(iss(context.syndrome))
    /\ LET len == 2 ^ sas(iss(context.syndrome))
           data == write_data(regs.gprs, srt(iss(context.syndrome)))
       IN  IF vcpu.vm_ops
             THEN \E ok \in BOOLEAN :
                    /\ trace' = Append(trace,
                          Call("mmio_write", context.map[2], SubSeq(data, 1, len), ok))
                    /\ IF ok THEN step' = "commit" /\ UNCHANGED panic
                             ELSE Done("unwrap: mmio_write")
             ELSE /\ step' = "commit"
                  /\ UNCHANGED <<trace, panic>>
    /\ UNCHANGED <<vcpu, vcpu0, context, entry, regs, ret_decode, ret_emulate>>

\* the sign extension without the cut to 32 bits for a W register
read_value_unmasked(buf, len, sign_extend, sf64) ==
    LET data == from_ne_bytes(buf)
        shift == 64 - len * 8
    IN  IF sign_extend THEN sar64(shl64(data, shift), shift) ELSE data

\* decode_with_syndrome, lines 72-79: the value of the 8-byte buffer, sign
\* extended from len bytes if asked, then cut to 32 bits unless sf
read_value(buf, len, sign_extend, sf64) ==
    LET data == from_ne_bytes(buf)
        shift == 64 - len * 8
    IN  IF sign_extend
          THEN IF sf64 THEN sar64(shl64(data, shift), shift)
                       ELSE and_ffffffff(sar64(shl64(data, shift), shift))
          ELSE data

\* decode_with_syndrome, line 80: gprs[reg_index as usize] = data, on an
\* array of NumGprs registers
store_in_bounds(reg_index) == reg_index < NumGprs

\* decode_with_syndrome, lines 64-81: the read path.  vm_ops.mmio_read fills
\* data[0..len] of a zeroed buffer, if the vCPU has vm_ops
decode_mmio_read ==
    /\ UNCHANGED <<cap_vars, codec_vars, gic_vars>>
    /\ step = "access"
    /\ ~wnr(iss(context.syndrome))
    /\ LET i == iss(context.syndrome)
           len == 2 ^ sas(i)
           reg_index == srt(i)
           Finish(buf) ==
               IF store_in_bounds(reg_index)
                 THEN /\ regs' = [regs EXCEPT
                            !.gprs[reg_index] = read_value(buf, len, sse(i), sf(i))]
                      /\ step' = "commit"
                      /\ UNCHANGED panic
                 ELSE /\ Done("index out of bounds")
                      /\ UNCHANGED regs
       IN  IF vcpu.vm_ops
             THEN \E ok \in BOOLEAN, p \in ReadPatterns :
                    LET got == IF ok THEN SubSeq(p, 1, len) ELSE <<>>
                    IN  /\ trace' = Append(trace,
                              Call("mmio_read", context.map[2], got, ok))
                        /\ IF ok
                             THEN Finish(got \o [k \in 1..(8 - len) |-> 0])
                             ELSE Done("unwrap: mmio_read") /\ UNCHANGED regs
             ELSE /\ Finish([k \in 1..8 |-> 0])
                  /\ UNCHANGED trace
    /\ UNCHANGED <<vcpu, vcpu0, context, entry, ret_decode, ret_emulate>>

\* the PC after the instruction, from the faulting PC of the context
next_pc_from_context(syndrome, r, ctx) == add64(ctx.pc, IF il(syndrome) THEN 4 ELSE 2)

\* decode_with_syndrome, lines 83-84: the PC after the instruction, from the
\* PC in the registers just read
next_pc(syndrome, r, ctx) == add64(r.pc, IF il(syndrome) THEN 4 ELSE 2)

\* decode_with_syndrome, lines 83-89, and the return of emulate, line 101,
\* when emulate was the caller.  An
\* overflowing addition panics in a build with overflow checks and wraps in
\* one without
decode_commit ==
    /\ UNCHANGED <<cap_vars, codec_vars, gic_vars>>
    /\ step = "commit"
    /\ LET sum == next_pc(context.syndrome, regs, context)
           new == [gprs |-> regs.gprs, pc |-> sum.val]
       IN  \E overflow_checks \in BOOLEAN, ok \in BOOLEAN :
             IF sum.overflow /\ overflow_checks
               THEN /\ Done("attempt to add with overflow")
                    /\ UNCHANGED <<vcpu, regs, trace, ret_decode, ret_emulate>>
               ELSE /\ regs' = new
                    /\ trace' = Append(trace, Call("set_regs", <<>>, new, ok))
                    /\ IF ok
                         THEN /\ vcpu' = [vcpu EXCEPT !.gprs = new.gprs, !.pc = new.pc]
                              /\ ret_decode' = "true"
                              /\ ret_emulate' = IF entry = "emulate" THEN "false" ELSE "none"
                              /\ step' = "done"
                              /\ UNCHANGED panic
                         ELSE /\ Done("unwrap: set_regs")
                              /\ UNCHANGED <<vcpu, ret_decode, ret_emulate>>
    /\ UNCHANGED <<vcpu0, context, entry>>

Next ==
    \/ emulate
    \/ decode_not_applicable
    \/ decode_get_regs
    \/ decode_mmio_write
    \/ decode_mmio_read
    \/ decode_commit

Spec == Init /\ [][Next]_vars

----------------------------------------------------------------------------
(* Properties of the emulator, checked under Spec *)

\* byte k (1 = least significant) of the u64 x, read off its bits
ByteAt(x, k) ==
    LET RECURSIVE Acc(_)
        Acc(j) == IF j > 7 THEN 0 ELSE BitOf(x, 8 * (k - 1) + j) * (2 ^ j) + Acc(j + 1)
    IN Acc(0)

Iss == iss(context.syndrome)
AccessLen == 2 ^ sas(Iss)
IsDataAbort == ec(context.syndrome) \in {DATA_ABORT, DATA_ABORT_LOWER}
NotApplicable == ~IsDataAbort \/ ~isv(Iss)

\* decode_with_syndrome was entered and has gone past its classification
PastClassify ==
    /\ ~(entry = "emulate" /\ context.interruption_pending)
    /\ step \in {"access", "commit", "done"}

\* the calls of the trace made on vm_ops
MmioCalls == SelectSeq(trace, LAMBDA c : c.op \in {"mmio_read", "mmio_write"})
SetRegsCalls == SelectSeq(trace, LAMBDA c : c.op = "set_regs")
GetRegsCalls == SelectSeq(trace, LAMBDA c : c.op = "get_regs")

\* the vCPU's registers were read and the access step is over
AccessDone ==
    /\ PastClassify
    /\ ~NotApplicable
    /\ Len(trace) >= 1 /\ trace[1].ok
    /\ step \in {"commit", "done"}

\* C1: a syndrome that is not a data abort (same or lower EL), or whose ISV
\* bit is clear, makes decode_with_syndrome return false without any call on
\* vm_ops or on the vCPU, and with every register and the PC as they were.
C1_NotApplicableNoEffect ==
    (NotApplicable /\ PastClassify) =>
        /\ ret_decode = "false"
        /\ trace = <<>>
        /\ vcpu = vcpu0
        /\ regs = NoRegs

\* C1 happens: a data abort with ISV clear was refused
C1_Witness ==
    /\ entry = "decode"
    /\ step = "done"
    /\ panic = "none"
    /\ ret_decode = "false"
    /\ IsDataAbort
    /\ ~isv(Iss)
    /\ wnr(Iss)

\* C2: on the write path with srt in 0..30 (vm_ops present, registers read),
\* mmio_write is called once, at map.1, with exactly 1 << sas bytes, the
\* least significant bytes of register srt, least significant first, and no
\* general-purpose register changes.
C2_WritePath ==
    (AccessDone /\ wnr(Iss) /\ srt(Iss) \in 0..30 /\ vcpu.vm_ops) =>
        /\ Len(MmioCalls) = 1
        /\ MmioCalls[1].op = "mmio_write"
        /\ MmioCalls[1].addr = context.map[2]
        /\ Len(MmioCalls[1].data) = AccessLen
        /\ \A k \in 1..AccessLen :
              MmioCalls[1].data[k] = ByteAt(vcpu0.gprs[srt(Iss)], k)
        /\ vcpu.gprs = vcpu0.gprs
        /\ regs.gprs = vcpu0.gprs

\* C2 happens: x5 = 0xAABBCCDD11223344 stored with sas = 2 put 44 33 22 11
\* on the bus and the fault was handled
C2_Witness ==
    /\ step = "done"
    /\ ret_decode = "true"
    /\ wnr(Iss) /\ srt(Iss) = 5 /\ sas(Iss) = 2
    /\ Len(MmioCalls) = 1
    /\ MmioCalls[1].data = <<68, 51, 34, 17>>
    /\ MmioCalls[1].addr = <<0, 2304, 0, 0>>

\* the value the claim gives a destination register for the bytes `data`
\* read, byte by byte: with sse and without sf nothing above 32 bits; else the
\* bytes read, then the sign fill with sse, zeros without
ExpectedByte(data, k) ==
    IF sse(Iss) /\ ~sf(Iss) /\ k > 4 THEN 0
    ELSE IF k <= Len(data) THEN data[k]
    ELSE IF sse(Iss) /\ data[Len(data)] >= 128 THEN 255
    ELSE 0

\* C3: on the read path with destination 0..30 (vm_ops present), the handled
\* fault leaves in the destination register the 1 << sas bytes read, zero
\* extended; with sse, sign extended from (1 << sas) * 8 bits to 64 bits and,
\* with sf clear, cut to the low 32 bits.
C3_ReadValue ==
    (AccessDone /\ ~wnr(Iss) /\ srt(Iss) \in 0..30 /\ vcpu.vm_ops) =>
        /\ Len(MmioCalls) = 1
        /\ MmioCalls[1].op = "mmio_read"
        /\ MmioCalls[1].addr = context.map[2]
        /\ MmioCalls[1].ok =>
              /\ Len(MmioCalls[1].data) = AccessLen
              /\ \A k \in 1..8 :
                    ByteAt(regs.gprs[srt(Iss)], k) = ExpectedByte(MmioCalls[1].data, k)
              /\ ret_decode = "true" =>
                    \A k \in 1..8 :
                       ByteAt(vcpu.gprs[srt(Iss)], k) = ExpectedByte(MmioCalls[1].data, k)

\* C3 happens: sas = 0, sse = 1, sf = 0 and the byte 0xFF gave 0xFFFFFFFF
C3_Witness ==
    /\ step = "done"
    /\ ret_decode = "true"
    /\ ~wnr(Iss) /\ sas(Iss) = 0 /\ sse(Iss) /\ ~sf(Iss) /\ srt(Iss) = 30
    /\ Len(MmioCalls) = 1
    /\ MmioCalls[1].data = <<255>>
    /\ vcpu.gprs[30] = <<65535, 65535, 0, 0>>

\* C4 (as claimed): register index 31 is the zero/ignored register on both
\* paths: a write sends 1 << sas zero bytes; a read whose callback succeeded
\* goes on to the write-back, the fault is handled, and no general-purpose
\* register changes.
C4_ZeroRegister ==
    (PastClassify /\ ~NotApplicable /\ srt(Iss) = 31 /\ vcpu.vm_ops
        /\ Len(MmioCalls) = 1 /\ MmioCalls[1].ok) =>
        /\ wnr(Iss) => MmioCalls[1].data = [k \in 1..AccessLen |-> 0]
        /\ ~wnr(Iss) =>
              /\ panic # "index out of bounds"
              /\ step \in {"commit", "done"}
              /\ vcpu.gprs = vcpu0.gprs
              /\ (step = "done" /\ panic = "none") => ret_decode = "true"

\* C5 (as claimed): an error of the MMIO callback reaches the caller as an
\* error, not as a fatal failure, with the vCPU's registers not written back.
C5_CallbackErrorPropagated ==
    (Len(MmioCalls) >= 1 /\ ~MmioCalls[Len(MmioCalls)].ok) =>
        /\ panic = "none"
        /\ vcpu = vcpu0
        /\ SetRegsCalls = <<>>

\* C6: a handled fault has written the registers back exactly once, and the
\* PC is the vCPU's PC at the fault plus 4 if IL is set, plus 2 if not, on
\* the read path and on the write path alike.
C6_PcAdvance ==
    ret_decode = "true" =>
        /\ Len(SetRegsCalls) = 1
        /\ SetRegsCalls[1].data.pc = vcpu.pc
        /\ vcpu.pc = add64(vcpu0.pc, IF il(context.syndrome) THEN 4 ELSE 2).val

\* C6 happens: a 16-bit instruction at 0xfffe, not the context's PC, moved
\* the PC to 0x10000
C6_Witness ==
    /\ ret_decode = "true"
    /\ ~il(context.syndrome)
    /\ vcpu0.pc = <<65534, 0, 0, 0>>
    /\ vcpu0.pc # context.pc
    /\ vcpu.pc = <<0, 1, 0, 0>>

\* C12: within one fault the calls come in the order get_regs (made only
\* once the syndrome was classified as decodable), then at most one call on
\* vm_ops, then at most one set_regs, each made only after the calls before
\* it succeeded, and a handled fault has made exactly one set_regs.  The
\* vCPU's registers are those at the fault until that set_regs succeeded and
\* from then on carry the advanced PC together with the destination
\* register: the PC never differs before the callback returned, and never
\* one of the two without the other.
C12_OrderAndSingleWriteBack ==
    /\ trace # <<>> => (~NotApplicable /\ PastClassify)
    /\ \A i \in 1..Len(trace) :
          /\ trace[i].op = "get_regs" <=> i = 1
          /\ trace[i].op \in {"mmio_read", "mmio_write"} => i = 2
          /\ trace[i].op = "set_regs" => i = Len(trace)
          /\ i < Len(trace) => trace[i].ok
    /\ Len(MmioCalls) <= 1
    /\ Len(SetRegsCalls) <= 1
    /\ step \in {"access", "commit"} => Len(SetRegsCalls) = 0
    /\ IF ret_decode = "true"
         THEN /\ Len(SetRegsCalls) = 1
              /\ trace[Len(trace)].ok
              /\ vcpu.pc = SetRegsCalls[1].data.pc
              /\ vcpu.gprs = SetRegsCalls[1].data.gprs
              /\ vcpu.pc # vcpu0.pc
              /\ vcpu.gprs = IF wnr(Iss) THEN vcpu0.gprs
                             ELSE [vcpu0.gprs EXCEPT ![srt(Iss)] = regs.gprs[srt(Iss)]]
              /\ (~wnr(Iss) /\ vcpu.vm_ops) =>
                    \A k \in 1..8 : ByteAt(vcpu.gprs[srt(Iss)], k) =
                                        ExpectedByte(MmioCalls[1].data, k)
         ELSE vcpu = vcpu0

\* C12 happens: a handled read whose one set_regs changed x5 and the PC,
\* after get_regs and one mmio_read
C12_Witness ==
    /\ ret_decode = "true"
    /\ ~wnr(Iss) /\ srt(Iss) = 5
    /\ Len(trace) = 3
    /\ trace[2].op = "mmio_read"
    /\ trace[3].op = "set_regs"
    /\ vcpu.gprs[5] # vcpu0.gprs[5]
    /\ vcpu.pc # vcpu0.pc

PendingPanic == "Let's handle this scenario differently"

\* C7: with the pending-interruption flag set, emulate ends in its own panic
\* before any decoding: no call on vm_ops, no read or write of the vCPU's
\* registers, no result from decode_with_syndrome or emulate, whatever the
\* syndrome; and no other path ends in that panic.
C7_PendingInterruptionFatal ==
    /\ (entry = "emulate" /\ context.interruption_pending) =>
          /\ step \in {"emulate", "done"}
          /\ step = "done" => panic = PendingPanic
          /\ trace = <<>>
          /\ vcpu = vcpu0
          /\ regs = NoRegs
          /\ ret_decode = "none"
          /\ ret_emulate = "none"
    /\ ~(entry = "emulate" /\ context.interruption_pending) => panic # PendingPanic

\* C7 happens: a decodable write fault with the flag set ended in the panic
C7_Witness ==
    /\ entry = "emulate"
    /\ context.interruption_pending
    /\ step = "done"
    /\ panic = PendingPanic
    /\ ~NotApplicable
    /\ wnr(Iss)
    /\ vcpu.vm_ops

\* C8 (as claimed): a fault that cannot be emulated from the syndrome
\* alone comes back from emulate as a normal result, not as a fatal failure.
C8_NotApplicableIsNormal ==
    (entry = "emulate" /\ ~context.interruption_pending /\ NotApplicable
        /\ step = "done") =>
        /\ panic = "none"
        /\ ret_emulate # "none"

----------------------------------------------------------------------------
(* Capability check: kvm/aarch64/mod.rs, check_required_kvm_extensions *)

\* the list with SetGuestDebug checked as well, as on x86_64
RequiredCaps_with_guest_debug ==
    <<"ImmediateExit", "Ioeventfd", "Irqchip", "Irqfd",
      "IrqRouting", "MpState", "OneReg", "SetGuestDebug", "UserMemory">>

\* the capabilities checked, in the order of lines 117-124
RequiredCaps ==
    <<"ImmediateExit", "Ioeventfd", "Irqchip", "Irqfd",
      "IrqRouting", "MpState", "OneReg", "UserMemory">>

\* the capabilities a host may or may not advertise
HostCaps == {RequiredCaps[i] : i \in 1..Len(RequiredCaps)} \cup {"SetGuestDebug"}

\* check_extension!($cap) for caps[from..]: the first capability the host
\* lacks ends the check; `asked` are the check_extension calls made
RECURSIVE check_extensions(_, _, _, _)
check_extensions(host, caps, from, asked) ==
    IF from > Len(caps)
      THEN [ret |-> <<"Ok">>, asked |-> asked]
      ELSE IF caps[from] \notin host
             THEN [ret |-> <<"CapabilityMissing", caps[from]>>,
                   asked |-> Append(asked, caps[from])]
             ELSE check_extensions(host, caps, from + 1, Append(asked, caps[from]))

InitCaps ==
    /\ EmulatorIdle
    /\ CodecIdle
    /\ GicIdle
    /\ kvm \in SUBSET HostCaps
    /\ cap_ret = <<"none">>
    /\ cap_trace = <<>>

check_required_kvm_extensions ==
    /\ cap_ret = <<"none">>
    /\ LET r == check_extensions(kvm, RequiredCaps, 1, <<>>)
       IN  /\ cap_ret' = r.ret
           /\ cap_trace' = r.asked
    /\ UNCHANGED <<kvm, emulator_vars, codec_vars, gic_vars>>

NextCaps == check_required_kvm_extensions

SpecCaps == InitCaps /\ [][NextCaps]_vars

----------------------------------------------------------------------------
(* Register codec: kvm/aarch64/mod.rs, From<StandardRegisters> for kvm_regs *)
(* and From<kvm_regs> for StandardRegisters                                 *)

\* `x as u32` of a u64, and `x as u64` of a u32
as_u32(x) == <<x[1], x[2]>>
as_u64(x) == <<x[1], x[2], 0, 0>>

\* Default::default() of the fields of user_fpsimd_state that the neutral
\* model does not carry (line 151)
DefaultReserved == <<0, 0>>

\* From<StandardRegisters> for kvm_regs, lines 135-156
kvm_regs_from(r) ==
    [kind |-> "kvm_regs",
     regs |-> [regs |-> r.gpr, sp |-> r.sp, pc |-> r.pc, pstate |-> r.pstate],
     sp_el1 |-> r.sp_el1,
     elr_el1 |-> r.elr_el1,
     spsr |-> r.spsr,
     fp_regs |-> [vregs |-> r.vregs,
                  fpsr |-> as_u32(r.fpsr),
                  fpcr |-> as_u32(r.fpcr),
                  reserved |-> DefaultReserved]]

\* `x as i32 as u64` of a u32: the widening that extends the sign
as_u64_signed(x) ==
    IF x[2] >= 32768 THEN <<x[1], x[2], 65535, 65535>> ELSE <<x[1], x[2], 0, 0>>

\* the conversion with fpsr and fpcr sign extended
StandardRegisters_from_signed(r) ==
    [kind |-> "StandardRegisters",
     gpr |-> r.regs.regs,
     sp |-> r.regs.sp,
     pc |-> r.regs.pc,
     pstate |-> r.regs.pstate,
     sp_el1 |-> r.sp_el1,
     elr_el1 |-> r.elr_el1,
     spsr |-> r.spsr,
     vregs |-> r.fp_regs.vregs,
     fpsr |-> as_u64_signed(r.fp_regs.fpsr),
     fpcr |-> as_u64_signed(r.fp_regs.fpcr)]

\* From<kvm_regs> for StandardRegisters, lines 158-173
StandardRegisters_from(r) ==
    [kind |-> "StandardRegisters",
     gpr |-> r.regs.regs,
     sp |-> r.regs.sp,
     pc |-> r.regs.pc,
     pstate |-> r.regs.pstate,
     sp_el1 |-> r.sp_el1,
     elr_el1 |-> r.elr_el1,
     spsr |-> r.spsr,
     vregs |-> r.fp_regs.vregs,
     fpsr |-> as_u64(r.fp_regs.fpsr),
     fpcr |-> as_u64(r.fp_regs.fpcr)]

\* longest chain of conversions applied to one value
MaxConversions == 2

\* values tried for the fields that are copied as they are
Words == {<<1, 0, 0, 0>>, <<65535, 65535, 65535, 65535>>}

\* values tried for the neutral 64-bit fpsr and fpcr: two that fit 32 bits,
\* 2^32 + 1 and 2^64 - 1
StatusWords64 == {Zero64, <<65535, 65535, 0, 0>>, <<1, 0, 1, 0>>, <<65535, 65535, 65535, 65535>>}

\* values tried for the native 32-bit fpsr and fpcr
StatusWords32 == {<<0, 0>>, <<65535, 65535>>}

\* values tried for the reserved words of the native fp_regs
ReservedWords == {DefaultReserved, <<7, 0>>}

NeutralValues ==
    [kind : {"StandardRegisters"}, gpr : Words, sp : Words, pc : Words,
     pstate : Words, sp_el1 : Words, elr_el1 : Words, spsr : Words,
     vregs : Words, fpsr : StatusWords64, fpcr : StatusWords64]

NativeValues ==
    [kind : {"kvm_regs"},
     regs : [regs : Words, sp : Words, pc : Words, pstate : Words],
     sp_el1 : Words, elr_el1 : Words, spsr : Words,
     fp_regs : [vregs : Words, fpsr : StatusWords32, fpcr : StatusWords32,
                reserved : ReservedWords]]

InitCodec ==
    /\ EmulatorIdle
    /\ CapIdle
    /\ GicIdle
    /\ codec_orig \in NeutralValues \cup NativeValues
    /\ codec_val = codec_orig
    /\ codec_steps = 0

to_native ==
    /\ codec_steps < MaxConversions
    /\ codec_val.kind = "StandardRegisters"
    /\ codec_val' = kvm_regs_from(codec_val)
    /\ codec_steps' = codec_steps + 1
    /\ UNCHANGED <<codec_orig, emulator_vars, cap_vars, gic_vars>>

to_neutral ==
    /\ codec_steps < MaxConversions
    /\ codec_val.kind = "kvm_regs"
    /\ codec_val' = StandardRegisters_from(codec_val)
    /\ codec_steps' = codec_steps + 1
    /\ UNCHANGED <<codec_orig, emulator_vars, cap_vars, gic_vars>>

NextCodec ==
    \/ to_native
    \/ to_neutral

SpecCodec == InitCodec /\ [][NextCodec]_vars

----------------------------------------------------------------------------
(* GIC device: mshv/aarch64/gic/mod.rs, MshvGicV3Its *)

\* values tried for each field of the VgicConfig
GicWords == {<<4096, 0, 0, 0>>, <<0, 2048, 0, 0>>}

\* vCPU counts tried
GicVcpuCounts == {<<1, 0, 0, 0>>, <<4, 0, 0, 0>>}

GicConfigs ==
    [dist_addr : GicWords, dist_size : GicWords, redists_addr : GicWords,
     redists_size : GicWords, msi_addr : GicWords, msi_size : GicWords,
     vcpu_count : GicVcpuCounts]

\* the backends a `&dyn Vm` handle may belong to
VmBackends == {"Mshv", "Kvm"}

\* the struct with the MSI base and size exchanged
MshvGicV3Its_msi_swapped(config) ==
    [dist_addr |-> config.dist_addr,
     dist_size |-> config.dist_size,
     redists_addr |-> config.redists_addr,
     redists_size |-> config.redists_size,
     msi_addr |-> config.msi_size,
     msi_size |-> config.msi_addr,
     vcpu_count |-> config.vcpu_count]

\* MshvGicV3Its::new, lines 45-53: the struct built from the config
MshvGicV3Its(config) ==
    [dist_addr |-> config.dist_addr,
     dist_size |-> config.dist_size,
     redists_addr |-> config.redists_addr,
     redists_size |-> config.redists_size,
     msi_addr |-> config.msi_addr,
     msi_size |-> config.msi_size,
     vcpu_count |-> config.vcpu_count]

\* Vgic::vcpu_count, device_properties and msi_properties, lines 76-91
vcpu_count(gic) == gic.vcpu_count
device_properties(gic) ==
    <<gic.dist_addr, gic.dist_size, gic.redists_addr, gic.redists_size>>
msi_properties(gic) == <<gic.msi_addr, gic.msi_size>>

InitGic ==
    /\ EmulatorIdle
    /\ CapIdle
    /\ CodecIdle
    /\ gic_vm \in VmBackends
    /\ gic_config \in GicConfigs
    /\ gic_step = "downcast"
    /\ gic_device = <<"none">>
    /\ gic_ret = <<"none">>
    /\ gic_panic = "none"

\* MshvGicV3Its::new, lines 40-43: vm.as_any().downcast_ref::<MshvVm>()
\* .expect("Wrong VM type?")
gic_downcast ==
    /\ gic_step = "downcast"
    /\ IF gic_vm = "Mshv"
         THEN gic_step' = "build" /\ UNCHANGED gic_panic
         ELSE gic_step' = "done" /\ gic_panic' = "Wrong VM type?"
    /\ UNCHANGED <<gic_vm, gic_config, gic_device, gic_ret>>
    /\ UNCHANGED <<emulator_vars, cap_vars, codec_vars>>

\* MshvGicV3Its::new, lines 45-55: build the device and return Ok of it
gic_build ==
    /\ gic_step = "build"
    /\ gic_device' = MshvGicV3Its(gic_config)
    /\ gic_ret' = <<"Ok", gic_device'>>
    /\ gic_step' = "done"
    /\ UNCHANGED <<gic_vm, gic_config, gic_panic>>
    /\ UNCHANGED <<emulator_vars, cap_vars, codec_vars>>

NextGic ==
    \/ gic_downcast
    \/ gic_build

SpecGic == InitGic /\ [][NextGic]_vars

----------------------------------------------------------------------------
(* Properties of the capability check, checked under SpecCaps *)

\* the order the capabilities are to be checked in
ClaimedOrder ==
    <<"ImmediateExit", "Ioeventfd", "Irqchip", "Irqfd",
      "IrqRouting", "MpState", "OneReg", "UserMemory">>

\* the index in ClaimedOrder of the first capability the host lacks
FirstMissing(host) ==
    CHOOSE i \in 1..Len(ClaimedOrder) :
        /\ ClaimedOrder[i] \notin host
        /\ \A j \in 1..(i - 1) : ClaimedOrder[j] \in host

\* C9: check_required_kvm_extensions returns Ok exactly when the host has
\* all eight required capabilities; otherwise CapabilityMissing of the first
\* one missing in the fixed order, no later capability having been asked
\* about; SetGuestDebug is never asked about and does not change the result.
C9_CapabilityCheck ==
    cap_ret[1] \in {"Ok", "CapabilityMissing"} =>
        /\ IF \A i \in 1..Len(ClaimedOrder) : ClaimedOrder[i] \in kvm
             THEN /\ cap_ret = <<"Ok">>
                  /\ cap_trace = ClaimedOrder
             ELSE /\ cap_ret = <<"CapabilityMissing", ClaimedOrder[FirstMissing(kvm)]>>
                  /\ cap_trace = SubSeq(ClaimedOrder, 1, FirstMissing(kvm))
        /\ \A i \in 1..Len(cap_trace) : cap_trace[i] # "SetGuestDebug"

\* C9 happens: a host without Irqfd, IrqRouting and SetGuestDebug was
\* refused for Irqfd, the first of them
C9_Witness ==
    /\ cap_ret = <<"CapabilityMissing", "Irqfd">>
    /\ kvm = {"ImmediateExit", "Ioeventfd", "Irqchip", "MpState", "OneReg", "UserMemory"}
    /\ cap_trace = <<"ImmediateExit", "Ioeventfd", "Irqchip", "Irqfd">>

----------------------------------------------------------------------------
(* Properties of the register codec, checked under SpecCodec *)

Fits32(x) == x[3] = 0 /\ x[4] = 0

\* C10 (as claimed): both round trips give back the value they started
\* from, for every native kvm_regs and every neutral StandardRegisters,
\* fpsr and fpcr using all 64 bits included.
C10_RoundTripExact ==
    codec_steps = 2 => codec_val = codec_orig

\* C10 (amended): the round trip gives back a native kvm_regs whose fields
\* without a neutral counterpart (the reserved words of fp_regs) have their
\* default value, and a neutral StandardRegisters whose fpsr and fpcr fit
\* in 32 bits.
C10_RoundTripWhereRepresentable ==
    codec_steps = 2 =>
        /\ (codec_orig.kind = "kvm_regs"
               /\ codec_orig.fp_regs.reserved = DefaultReserved)
              => codec_val = codec_orig
        /\ (codec_orig.kind = "StandardRegisters"
               /\ Fits32(codec_orig.fpsr) /\ Fits32(codec_orig.fpcr))
              => codec_val = codec_orig

\* C10 happens: a neutral value with fpsr = 0xFFFFFFFF went to native and
\* back unchanged
C10_Witness ==
    /\ codec_steps = 2
    /\ codec_orig.kind = "StandardRegisters"
    /\ codec_orig.fpsr = <<65535, 65535, 0, 0>>
    /\ codec_orig.fpcr = Zero64
    /\ codec_orig.sp # codec_orig.sp_el1
    /\ codec_val = codec_orig

----------------------------------------------------------------------------
(* Properties of the GIC device, checked under SpecGic *)

\* C11 (as claimed): with a VM handle of another backend MshvGicV3Its::new
\* returns a type-confusion error to its caller, no device having been
\* built; with an MSHV handle it returns a device that carries the config.
C11_WrongVmReturnsError ==
    gic_step = "done" =>
        IF gic_vm = "Mshv"
          THEN /\ gic_ret = <<"Ok", gic_device>>
               /\ gic_panic = "none"
          ELSE /\ gic_ret[1] = "Err"
               /\ gic_panic = "none"
               /\ gic_device = <<"none">>

\* C11 (amended): with a VM handle of another backend MshvGicV3Its::new
\* ends in the panic "Wrong VM type?", returning nothing, no device having
\* been built; with an MSHV handle it returns Ok of a device whose
\* distributor, redistributor and MSI base and size and vCPU count are
\* those of the config.  No device exists before the downcast succeeded.
C11_WrongVmPanics ==
    /\ gic_step = "downcast" => gic_device = <<"none">>
    /\ gic_step = "done" =>
          IF gic_vm = "Mshv"
            THEN /\ gic_panic = "none"
                 /\ gic_ret = <<"Ok", gic_device>>
                 /\ device_properties(gic_device) =
                       <<gic_config.dist_addr, gic_config.dist_size,
                         gic_config.redists_addr, gic_config.redists_size>>
                 /\ msi_properties(gic_device) =
                       <<gic_config.msi_addr, gic_config.msi_size>>
                 /\ vcpu_count(gic_device) = gic_config.vcpu_count
            ELSE /\ gic_panic = "Wrong VM type?"
                 /\ gic_ret = <<"none">>
                 /\ gic_device = <<"none">>

\* C11 happens: a KVM handle ended in the panic with nothing built
C11_Witness ==
    /\ gic_step = "done"
    /\ gic_vm = "Kvm"
    /\ gic_panic = "Wrong VM type?"
    /\ gic_device = <<"none">>
    /\ gic_config.msi_addr # gic_config.msi_size

====
